---- MODULE Spec2Model ----
(***************************************************************************)
(* MinedMap: chunk decoding and top-layer extraction.                      *)
(*                                                                         *)
(* The module models, component by component,                              *)
(*   - world/layer.rs      BlockInfo::fill, BlockHeight::new, top_layer    *)
(*   - util.rs             shift_mask, coord_offset                        *)
(*   - world/section.rs    palette_bits, SectionV1_13, BlockLight          *)
(*   - world/chunk.rs      Chunk::new_v0                                   *)
(*   - bin/minedmap/region_group.rs   RegionGroup                          *)
(* Every component has its own variables, initial condition, next-state    *)
(* relation and specification (SpecLayer, SpecCoord, ...).  While one      *)
(* component runs, the variables of the others rest at their idle value.   *)
(***************************************************************************)
EXTENDS Integers, Sequences, FiniteSets, TLC

\* Option<T>: None is the empty set, Some(x) the singleton {x}.
None == {}
Some(x) == {x}
The(o) == CHOOSE x \in o : TRUE

\* Result<T>: Ok(v), or an error with its message.
Ok(v) == [ok |-> TRUE, val |-> {v}, err |-> ""]
Err(msg) == [ok |-> FALSE, val |-> {}, err |-> msg]
\* The value of an Ok result.
Val(r) == CHOOSE x \in r.val : TRUE

Min(S) == CHOOSE m \in S : \A o \in S : m <= o
Max(S) == CHOOSE m \in S : \A o \in S : m >= o

\* Range of Rust's i32 and i8.
I32Min == -(2^30) - 2^30
I32Max == (2^30 - 1) + 2^30
InI32(v) == I32Min <= v /\ v <= I32Max
InI8(v) == -128 <= v /\ v <= 127

VARIABLES
    \* ---- world/layer.rs: one call of top_layer ----
    chunk,      \* the chunk handed to top_layer
    lpc,        \* "start" | "scan" | "none" (Ok(None)) | "some" (Ok(Some(ret))) | "err"
    cur,        \* loop position [sy, y, xz] while lpc = "scan"
    done,       \* the local counter `done`
    ret,        \* the LayerData under construction
    supplied,   \* history: per column, the height passed to the fill call that set block_type
    \* ---- util.rs: one call of coord_offset ----
    coordArgs,  \* [chunk, block]: the coordinate pair handed to coord_offset
    coordRes,   \* the call made and what it returned
    \* ---- world/section.rs: one call of palette_bits ----
    palArgs,    \* [len, min, max]
    palRes,     \* the Option<u8> returned, once called
    \* ---- world/section.rs: a SectionV1_13 and one block_at on it ----
    secIn,      \* what SectionV1_13::new is handed
    sec13,      \* the Result<SectionV1_13> it returned (Err("") before the call)
    secRead,    \* the block_at call made on the section and what it returned
    \* ---- world/chunk.rs: one call of Chunk::new_v0 ----
    chunkArgs,          \* data_version, level.sections and level.biomes
    cpc,                \* "idle", "loop" (in or before the for loop), "done"
    cidx,               \* number of sections the loop has visited
    section_map_v1_13,  \* the local BTreeMap of V1_13 sections
    section_map_v0,     \* the local BTreeMap of V0 sections
    chunkRes,           \* the Result<Chunk> returned
    \* ---- bin/minedmap/region_group.rs: a RegionGroup and one get on it ----
    groupArgs,  \* the caller's f: the cells it fails for, and what marks its values
    groupRes,   \* the Result<RegionGroup> of RegionGroup::new (Err("") before the call)
    getRes,     \* the get call made on the group and what it returned
    \* ---- bin/minedmap/region_group.rs: iter, map or try_map on a RegionGroup ----
    opArgs,     \* the cells f fails for, its mark, and the cells try_map's function fails for
    opGroup,    \* the Result<RegionGroup> of RegionGroup::new (Err("") before the call)
    opRes,      \* the method called on the group and what it returned
    \* ---- main.rs: one call of RegionProcessor::process_region ----
    regionArgs,         \* the region file's chunks; the processed directory at entry
    rpc,                \* "idle", "open", "chunks", "rename" (in save_region), "done"
    visited,            \* the chunks the closure was called for, in order
    processed_region,   \* the local ProcessedRegion
    fsTmp,              \* what the .tmp path of the artifact holds
    fsFinal,            \* what the final path of the artifact holds
    fsOps,              \* the file operations made, in order
    regionRes,          \* the Result<()> returned
    \* ---- main.rs: RegionProcessor::run, called by main ----
    runArgs,    \* the entries of the region directory
    runpc,      \* "idle", "read_dir", "create_dir", "loop", "failed", "returned", "rendered"
    runRet,     \* the local `ret`
    runSeen,    \* number of directory entries the loop has taken
    attempted,  \* the coordinates process_region was called with, in order
    saved,      \* the coordinates process_region saved the artifact of
    runRes,     \* the Result<Vec<RegionCoords>> returned
    tiles       \* the regions handed to TileRenderer::run

layerVars == <<chunk, lpc, cur, done, ret, supplied>>
coordVars == <<coordArgs, coordRes>>
palVars == <<palArgs, palRes>>
sectionVars == <<secIn, sec13, secRead>>
chunkVars == <<chunkArgs, cpc, cidx, section_map_v1_13, section_map_v0, chunkRes>>
groupVars == <<groupArgs, groupRes, getRes>>
opsVars == <<opArgs, opGroup, opRes>>
regionVars == <<regionArgs, rpc, visited, processed_region, fsTmp, fsFinal, fsOps, regionRes>>
runVars == <<runArgs, runpc, runRet, runSeen, attempted, saved, runRes, tiles>>

vars == <<layerVars, coordVars, palVars, sectionVars, chunkVars, groupVars, opsVars,
         regionVars, runVars>>

\* The variables of the other components, as seen from each.
notLayerVars == <<coordVars, palVars, sectionVars, chunkVars, groupVars, opsVars,
    regionVars, runVars>>
notCoordVars == <<layerVars, palVars, sectionVars, chunkVars, groupVars, opsVars,
    regionVars, runVars>>
notPalVars == <<layerVars, coordVars, sectionVars, chunkVars, groupVars, opsVars,
    regionVars, runVars>>
notSectionVars == <<layerVars, coordVars, palVars, chunkVars, groupVars, opsVars,
    regionVars, runVars>>
notChunkVars == <<layerVars, coordVars, palVars, sectionVars, groupVars, opsVars,
    regionVars, runVars>>
notGroupVars == <<layerVars, coordVars, palVars, sectionVars, chunkVars, opsVars,
    regionVars, runVars>>
notOpsVars == <<layerVars, coordVars, palVars, sectionVars, chunkVars, groupVars,
    regionVars, runVars>>
notRegionVars == <<layerVars, coordVars, palVars, sectionVars, chunkVars, groupVars,
    opsVars, runVars>>
notRunVars == <<layerVars, coordVars, palVars, sectionVars, chunkVars, groupVars,
    opsVars, regionVars>>

--------------------------------------------------------------------------
(***************************************************************************)
(* world/layer.rs                                                          *)
(***************************************************************************)

\* Most blocks of a chunk that are not plain air (the rest of the chunk is air).
MaxBlocks == 3

\* Scaled-down section geometry: BlockY::iter() is 0..15 and
\* BlockInfoArray::keys() the 256 (x, z) pairs in the program.
BlockYs == 0 .. 1
XZKeys == 0 .. 1
\* Section Y coordinates a chunk of the model may populate.
SectionYs == {-1, 0}

\* BLOCKS_PER_CHUNK, in the scaled geometry.
BlocksPerChunk == Cardinality(BlockYs)
\* N * N of top_layer: the number of columns.
NumColumns == Cardinality(XZKeys)

\* Block types of the catalog, with the two flags the scan consumes.
Air == [id |-> "air", flags |-> {}]
Stone == [id |-> "stone", flags |-> {"Opaque"}]
Water == [id |-> "water", flags |-> {"Opaque", "Water"}]
BlockTypes == {Air, Stone, Water}

\* BlockType::is
Is(block_type, flag) == flag \in block_type.flags

\* What Section::block_at may answer at one position: Ok(Some(type)),
\* Ok(None) (a palette entry of unknown name) or Err (palette index out of bounds).
BlockAtResults ==
    { Ok(Some(t)) : t \in BlockTypes } \cup { Ok(None), Err("Palette index out of bounds") }

\* SectionBlockCoords::offset in the scaled geometry (y*256 + z*16 + x in the program).
LayerOffset(coords) == coords.y * NumColumns + coords.xz

\* `as u8` on an i8
AsU8(b) == (b + 256) % 256

\* BlockLight::block_light_at: light is None or a sequence of i8, two nibbles a byte.
block_light_at(light, coords) ==
    IF light = None THEN 0
    ELSE LET offset == LayerOffset(coords) \div 2
             nibble == LayerOffset(coords) % 2
             byte == AsU8(The(light)[offset + 1])
         IN IF nibble = 1 THEN byte \div 16 ELSE byte % 16

\* A block-light array of the scaled section: nibbles 1, 2, 15, 8 at offsets 0..3
\* (0x21, 0x8f as i8).
LightBytes == <<33, -113>>
LightChoices == {None, Some(LightBytes)}

\* Biome lookup of a section at a position: the catalog is abstracted to
\* the identity of the sample.
biome_at(section_y, coords) == Ok(Some(<<section_y, coords.y, coords.xz>>))

\* BlockHeight::new: checked_mul, checked_add_unsigned.
BlockHeight_new(section, block) ==
    LET m == section * BlocksPerChunk
    IN IF ~InI32(m) THEN Err("Block height out of bounds")
       ELSE IF ~InI32(m + block) THEN Err("Block height out of bounds")
       ELSE Ok(m + block)

\* BlockInfo::is_empty, BlockInfo::done
is_empty(entry) == entry.block_type = None
entry_done(entry) == entry.depth # None

\* fill with the Water test negated: water sets the depth, other blocks do not.
fill_water_test_negated(entry, y, block_type) ==
    IF ~Is(block_type, "Opaque") THEN [entry |-> entry, ok |-> FALSE]
    ELSE LET e1 == [entry EXCEPT !.block_type =
                        IF entry.block_type = None THEN Some(block_type) ELSE @]
         IN IF ~Is(block_type, "Water") THEN [entry |-> e1, ok |-> FALSE]
            ELSE [entry |-> [e1 EXCEPT !.depth = Some(y)], ok |-> TRUE]

\* fill storing the block type of every opaque block it is handed.
fill_overwrites_type(entry, y, block_type) ==
    IF ~Is(block_type, "Opaque") THEN [entry |-> entry, ok |-> FALSE]
    ELSE LET e1 == [entry EXCEPT !.block_type = Some(block_type)]
         IN IF Is(block_type, "Water") THEN [entry |-> e1, ok |-> FALSE]
            ELSE [entry |-> [e1 EXCEPT !.depth = Some(y)], ok |-> TRUE]

\* BlockInfo::fill: the entry afterwards and the returned bool.
fill(entry, y, block_type) ==
    IF ~Is(block_type, "Opaque") THEN [entry |-> entry, ok |-> FALSE]
    ELSE LET e1 == [entry EXCEPT !.block_type =
                        IF entry.block_type = None THEN Some(block_type) ELSE @]
         IN IF Is(block_type, "Water") THEN [entry |-> e1, ok |-> FALSE]
            ELSE [entry |-> [e1 EXCEPT !.depth = Some(y)], ok |-> TRUE]

\* top_layer, lines 125-127, with the write kept to cells whose light is still 0.
light_post_check_first_write(entry, old, light, coords) ==
    IF is_empty(entry) /\ old = 0 THEN block_light_at(light, coords) ELSE old

\* top_layer, lines 125-127: the block light of a cell that is still empty is
\* overwritten with the light at the current position.
light_post_check(entry, old, light, coords) ==
    IF is_empty(entry) THEN block_light_at(light, coords) ELSE old

\* LayerData::default()
LayerDefault ==
    [blocks |-> [k \in XZKeys |-> [block_type |-> None, depth |-> None]],
     biomes |-> [k \in XZKeys |-> None],
     block_light |-> [k \in XZKeys |-> 0]]

Positions == BlockYs \X XZKeys

\* A section map over the section Ys `ys`: block_at's answer at every position
\* (air wherever `kinds` names nothing else) and each section's block light.
SectionMap(ys, kinds, lights) ==
    [s \in ys |-> [blocks |-> [p \in Positions |->
                                  IF <<s, p>> \in DOMAIN kinds THEN kinds[<<s, p>>]
                                  ELSE Ok(Some(Air))],
                   light |-> lights[s]]]

\* Chunk::is_empty
chunk_is_empty(c) == c.variant = "Empty"

IdleCur == [sy |-> 0, y |-> 0, xz |-> 0]
NoSupply == [k \in XZKeys |-> None]

\* Chunk::Empty, or a chunk with a section map (of V1_18, which may hold no
\* section at all; V1_13 and V0 present the same iterator to top_layer).
LayerStart ==
    /\ \/ chunk = [variant |-> "Empty", section_map |-> SectionMap({}, <<>>, <<>>)]
       \/ \E ys \in SUBSET SectionYs :
            \E solid \in SUBSET (ys \X Positions) :
                /\ Cardinality(solid) <= MaxBlocks
                /\ \E kinds \in [solid -> BlockAtResults \ {Ok(Some(Air))}] :
                     \E lights \in [ys -> LightChoices] :
                        chunk = [variant |-> "V1_18",
                                 section_map |-> SectionMap(ys, kinds, lights)]
    /\ lpc = "start"
    /\ cur = IdleCur
    /\ done = 0
    /\ ret = LayerDefault
    /\ supplied = NoSupply

\* chunk.sections().rev(): the populated section below sy, if any.
SectionsBelow(sy) == { s \in DOMAIN chunk.section_map : s < sy }

\* The loop position after the xz loop has ended at (sy, y): the next lower y,
\* else the first position of the next lower section, else the end of the scan.
AfterXZLoop(sy, y) ==
    IF y > Min(BlockYs)
    THEN [pc |-> "scan", cur |-> [sy |-> sy, y |-> y - 1, xz |-> Min(XZKeys)]]
    ELSE IF SectionsBelow(sy) # {}
    THEN [pc |-> "scan",
          cur |-> [sy |-> Max(SectionsBelow(sy)), y |-> Max(BlockYs), xz |-> Min(XZKeys)]]
    ELSE [pc |-> "some", cur |-> IdleCur]

\* The loop position after the body at cur has run to its end or `continue`d.
AfterCell ==
    IF cur.xz < Max(XZKeys)
    THEN [pc |-> "scan", cur |-> [cur EXCEPT !.xz = @ + 1]]
    ELSE AfterXZLoop(cur.sy, cur.y)

\* The loop position after `break` at line 130: it leaves the xz loop.
AfterBreak == AfterXZLoop(cur.sy, cur.y)

\* top_layer answering an empty chunk with a default LayerData.
TopLayerEmpty_default_layer ==
    /\ lpc = "start"
    /\ chunk_is_empty(chunk)
    /\ lpc' = "some"
    /\ UNCHANGED <<chunk, cur, done, ret, supplied>>
    /\ UNCHANGED notLayerVars

\* top_layer, lines 83-85
TopLayerEmpty ==
    /\ lpc = "start"
    /\ chunk_is_empty(chunk)
    /\ lpc' = "none"
    /\ UNCHANGED <<chunk, cur, done, ret, supplied>>
    /\ UNCHANGED notLayerVars

\* top_layer, lines 87-96: the locals, and the first section of the reversed iterator.
TopLayerBegin ==
    /\ lpc = "start"
    /\ ~chunk_is_empty(chunk)
    /\ done' = 0
    /\ ret' = LayerDefault
    /\ IF DOMAIN chunk.section_map = {}
       THEN lpc' = "some" /\ cur' = IdleCur
       ELSE /\ lpc' = "scan"
            /\ cur' = [sy |-> Max(DOMAIN chunk.section_map),
                       y |-> Max(BlockYs), xz |-> Min(XZKeys)]
    /\ UNCHANGED <<chunk, supplied>>
    /\ UNCHANGED notLayerVars

CurCoords == [xz |-> cur.xz, y |-> cur.y]
CurSection == chunk.section_map[cur.sy]
\* section.block_at(coords) at the loop position
CurBlock == CurSection.blocks[<<cur.y, cur.xz>>]

\* lines 100-102: the column is done, `continue`.
CellSkip ==
    /\ lpc = "scan"
    /\ entry_done(ret.blocks[cur.xz])
    /\ lpc' = AfterCell.pc
    /\ cur' = AfterCell.cur
    /\ UNCHANGED <<chunk, done, ret, supplied>>
    /\ UNCHANGED notLayerVars

\* lines 107 and 111: block_at or BlockHeight::new fails, `?` returns the error.
CellError ==
    /\ lpc = "scan"
    /\ ~entry_done(ret.blocks[cur.xz])
    /\ \/ ~CurBlock.ok
       \/ CurBlock.ok /\ Val(CurBlock) # None /\ ~BlockHeight_new(cur.sy, cur.y).ok
    /\ lpc' = "err"
    /\ UNCHANGED <<chunk, cur, done, ret, supplied>>
    /\ UNCHANGED notLayerVars

\* lines 104-131: the body of the xz loop for a column that is not done.
CellVisit ==
    /\ lpc = "scan"
    /\ ~entry_done(ret.blocks[cur.xz])
    /\ CurBlock.ok
    /\ Val(CurBlock) # None => BlockHeight_new(cur.sy, cur.y).ok
    /\ LET entry == ret.blocks[cur.xz]
           height == Val(BlockHeight_new(cur.sy, cur.y))
           f == IF Val(CurBlock) = None THEN [entry |-> entry, ok |-> FALSE]
                ELSE fill(entry, height, The(Val(CurBlock)))
           done1 == IF f.ok THEN done + 1 ELSE done
           biome1 == IF ~is_empty(f.entry) /\ ret.biomes[cur.xz] = None
                     THEN Val(biome_at(cur.sy, CurCoords))
                     ELSE ret.biomes[cur.xz]
           light1 == light_post_check(f.entry, ret.block_light[cur.xz],
                                      CurSection.light, CurCoords)
           after == IF done1 = NumColumns THEN AfterBreak ELSE AfterCell
       IN /\ ret' = [blocks |-> [ret.blocks EXCEPT ![cur.xz] = f.entry],
                     biomes |-> [ret.biomes EXCEPT ![cur.xz] = biome1],
                     block_light |-> [ret.block_light EXCEPT ![cur.xz] = light1]]
          /\ done' = done1
          /\ supplied' = IF is_empty(entry) /\ ~is_empty(f.entry)
                         THEN [supplied EXCEPT ![cur.xz] = Some(height)]
                         ELSE supplied
          /\ lpc' = after.pc
          /\ cur' = after.cur
    /\ UNCHANGED chunk
    /\ UNCHANGED notLayerVars

LayerNext == TopLayerEmpty \/ TopLayerBegin \/ CellSkip \/ CellError \/ CellVisit

\* The layer variables while another component runs.
LayerIdle ==
    /\ chunk = [variant |-> "Empty", section_map |-> SectionMap({}, <<>>, <<>>)]
    /\ lpc = "start"
    /\ cur = IdleCur
    /\ done = 0
    /\ ret = LayerDefault
    /\ supplied = NoSupply

--------------------------------------------------------------------------
(***************************************************************************)
(* util.rs                                                                 *)
(***************************************************************************)

BLOCK_BITS == 4
CHUNK_BITS == 5

\* `as u32` on an i32: the two's complement bit pattern, as its two 16-bit
\* halves (\div rounds towards minus infinity and % is never negative).
AsU32(v) == [hi |-> (v \div 2^16) % 2^16, lo |-> v % 2^16]

\* a | b on non-negative integers, bit by bit
RECURSIVE BitOr(_, _)
BitOr(a, b) ==
    IF a = 0 THEN b
    ELSE IF b = 0 THEN a
    ELSE (IF a % 2 = 1 \/ b % 2 = 1 THEN 1 ELSE 0) + 2 * BitOr(a \div 2, b \div 2)

\* u & ((1 << shift) - 1) on a u32: the low `shift` bits
MaskLow(u, shift) ==
    IF shift <= 16 THEN u.lo % (2^shift)
    ELSE u.lo + 2^16 * (u.hi % (2^(shift - 16)))

\* >> on an i32 is arithmetic: it rounds towards minus infinity.
ShrI32(v, shift) == v \div (2^shift)

\* shift_mask with the quotient rounded towards zero.
shift_mask_i32_truncating(v, shift) ==
    [hi |-> IF v >= 0 THEN v \div (2^shift) ELSE -((-v) \div (2^shift)),
     lo |-> MaskLow(AsU32(v), shift)]

\* ShiftMask for i32: (self >> shift, (self as u32) & mask)
shift_mask_i32(v, shift) == [hi |-> ShrI32(v, shift), lo |-> MaskLow(AsU32(v), shift)]

\* ChunkCoord::new and BlockCoord::new: the value, which must lie in the
\* coordinate's range.
ChunkCoord_new(v) == IF v \in 0 .. (2^CHUNK_BITS - 1) THEN Ok(v) ELSE Err("panic")
BlockCoord_new(v) == IF v \in 0 .. (2^BLOCK_BITS - 1) THEN Ok(v) ELSE Err("panic")

NoCoordRes == [called |-> FALSE, offset |-> 0, panic |-> FALSE,
               region |-> 0, chunk |-> 0, block |-> 0]

\* coord_offset: the triple returned, or a panic (the addition overflows an
\* i32 in a checked build, the region does not fit an i8, a coordinate is out
\* of range).
coord_offset(c, b, offset) ==
    LET sum == BitOr(c * 2^BLOCK_BITS, b) + offset
        rcb == shift_mask_i32(sum, BLOCK_BITS)
        rc == shift_mask_i32(rcb.hi, CHUNK_BITS)
        panicked == [NoCoordRes EXCEPT !.called = TRUE, !.offset = offset, !.panic = TRUE]
    IN IF ~InI32(sum) THEN panicked
       ELSE IF ~InI8(rc.hi) \/ ~ChunkCoord_new(rc.lo).ok \/ ~BlockCoord_new(rcb.lo).ok
       THEN panicked
       ELSE [called |-> TRUE, offset |-> offset, panic |-> FALSE, region |-> rc.hi,
             chunk |-> Val(ChunkCoord_new(rc.lo)), block |-> Val(BlockCoord_new(rcb.lo))]

\* CHUNKS_PER_REGION * BLOCKS_PER_CHUNK: the largest offset of the contract.
RegionBlocks == 2^CHUNK_BITS * 2^BLOCK_BITS

\* The offsets tried: all of the contract, and some out of it (a region delta
\* of two, a region delta that does not fit an i8).
Offsets == (-RegionBlocks .. RegionBlocks)
           \cup {-(2^16) - 1, -RegionBlocks - 1, RegionBlocks + 1, 2^16}

CoordIdle ==
    /\ coordArgs = [chunk |-> 0, block |-> 0]
    /\ coordRes = NoCoordRes

CoordStart ==
    /\ coordArgs \in [chunk : 0 .. (2^CHUNK_BITS - 1), block : 0 .. (2^BLOCK_BITS - 1)]
    /\ coordRes = NoCoordRes

CoordOffset ==
    /\ ~coordRes.called
    /\ \E offset \in Offsets :
         coordRes' = coord_offset(coordArgs.chunk, coordArgs.block, offset)
    /\ UNCHANGED coordArgs
    /\ UNCHANGED notCoordVars

CoordNext == CoordOffset

--------------------------------------------------------------------------
(***************************************************************************)
(* world/section.rs: palette_bits                                          *)
(***************************************************************************)

\* Largest palette length tried.
MaxPaletteLen == 4100

\* palette_bits with the loop running while (1 << bits) <= len.
RECURSIVE palette_bits_loop_le(_, _, _)
palette_bits_loop_le(bits, len, max) ==
    IF 2^bits <= len
    THEN IF bits + 1 > max THEN None ELSE palette_bits_loop_le(bits + 1, len, max)
    ELSE Some(bits)

palette_bits_le(len, min, max) == palette_bits_loop_le(min, len, max)

\* The while loop of palette_bits, entered with `bits`.
RECURSIVE palette_bits_loop(_, _, _)
palette_bits_loop(bits, len, max) ==
    IF 2^bits < len
    THEN IF bits + 1 > max THEN None ELSE palette_bits_loop(bits + 1, len, max)
    ELSE Some(bits)

\* palette_bits
palette_bits(len, min, max) == palette_bits_loop(min, len, max)

\* The (min, max) pairs palette_bits is called with: SectionV1_13::new and
\* BiomesV18::new.
PaletteBitsCalls == { <<4, 12>>, <<1, 6>> }

NoPalRes == [called |-> FALSE, bits |-> None]

PalIdle ==
    /\ palArgs = [len |-> 0, min |-> 0, max |-> 0]
    /\ palRes = NoPalRes

PalStart ==
    /\ \E len \in 0 .. MaxPaletteLen : \E mm \in PaletteBitsCalls :
         palArgs = [len |-> len, min |-> mm[1], max |-> mm[2]]
    /\ palRes = NoPalRes

PaletteBits ==
    /\ ~palRes.called
    /\ palRes' = [called |-> TRUE, bits |-> palette_bits(palArgs.len, palArgs.min, palArgs.max)]
    /\ UNCHANGED palArgs
    /\ UNCHANGED notPalVars

PalNext == PaletteBits

--------------------------------------------------------------------------
(***************************************************************************)
(* world/section.rs: SectionV1_13                                          *)
(***************************************************************************)

\* A 64-bit word is the function from bit position 0..63 (0 the least
\* significant) to 0 or 1: an i64 and the u64 it is cast to share it.
BitPos == 0 .. 63

\* w >> n on an i64: the sign bit is shifted in.
ShrI64(w, n) == [i \in BitPos |-> IF i + n < 64 THEN w[i + n] ELSE w[63]]

\* w >> n on a u64
ShrU64(w, n) == [i \in BitPos |-> IF i + n < 64 THEN w[i + n] ELSE 0]

\* w << n on a u64, for n < 64
ShlU64(w, n) == [i \in BitPos |-> IF i >= n THEN w[i - n] ELSE 0]

\* a | b on u64
OrU64(a, b) == [i \in BitPos |-> IF a[i] = 1 \/ b[i] = 1 THEN 1 ELSE 0]

\* w & ((1 << bits) - 1)
AndMask(w, bits) == [i \in BitPos |-> IF i < bits THEN w[i] ELSE 0]

\* The value of the bits of a u64 below position `below`.
RECURSIVE U64Value(_, _)
U64Value(w, below) ==
    IF below = 0 THEN 0
    ELSE (IF w[below - 1] = 1 THEN 2^(below - 1) ELSE 0) + U64Value(w, below - 1)

\* `as usize` on a u64 (usize has 64 bits)
AsUsize(w) == U64Value(w, 64)

\* SectionBlockCoords::offset
SectionOffset(coords) == coords.y * 256 + coords.z * 16 + coords.x

\* The palette of a section is told by its length: entry i names block type i,
\* and every fifth name is unknown to the catalog (BlockTypes::get gives None).
PaletteEntry(i) == IF i % 5 = 3 THEN None ELSE Some(i)

\* The index the writer of the section stored for the block at offset `off`.
RawIndex(in, off) ==
    IF in.pattern = "ones" THEN 2^in.bits - 1
    ELSE (off * 2731 + 5) % in.palette_len

\* Bit j of a non-negative integer.
BitOf(v, j) == (v \div 2^j) % 2

\* The packed array as the game writes it with indices of in.bits bits, bit i
\* of word w: word-aligned slots of floor(64/b) indices a word from data
\* version 2529 on (the bits no slot uses are in.pad), a contiguous bit stream
\* before.
PackedBit(in, w, i) ==
    LET b == in.bits
    IN IF in.data_version >= 2529
       THEN LET per_word == 64 \div b
                slot == i \div b
                off == w * per_word + slot
            IN IF slot < per_word /\ off < 4096
               THEN BitOf(RawIndex(in, off), i % b)
               ELSE in.pad
       ELSE LET p == w * 64 + i
            IN IF p \div b < 4096 THEN BitOf(RawIndex(in, p \div b), p % b) ELSE in.pad

\* block_states[w] of the section built from `in`.
StatesWord(in, w) == [i \in BitPos |-> PackedBit(in, w, i)]

\* The length the packed array must have (SectionV1_13::new, lines 57-62).
expected_length(aligned_blocks, bits) ==
    IF aligned_blocks
    THEN LET blocks_per_word == 64 \div bits
         IN (4096 + blocks_per_word - 1) \div blocks_per_word
    ELSE 64 * bits

\* SectionV1_13::new.  The section keeps the input it borrows from (`src`), the
\* length of its packed array (None without one) and of its palette, bits and
\* aligned_blocks.
SectionV1_13_new(in) ==
    LET aligned_blocks == in.data_version >= 2529
        bits == palette_bits(in.palette_len, 4, 12)
    IN IF bits = None THEN Err("Unsupported block palette size")
       ELSE IF in.states_len # None
               /\ The(in.states_len) # expected_length(aligned_blocks, The(bits))
       THEN Err("Invalid section block data")
       ELSE Ok([src |-> in,
                block_states |-> in.states_len,
                palette_len |-> in.palette_len,
                bits |-> The(bits),
                aligned_blocks |-> aligned_blocks])

\* The unaligned branch of palette_index_at with the word shifted as an i64.
unaligned_shifted_signed(sec, offset) ==
    LET bits == sec.bits
        bit_offset == offset * bits
        word == bit_offset \div 64
        bit_shift == bit_offset % 64
        straddles == bit_shift + bits > 64
        tmp == ShrI64(StatesWord(sec.src, word), bit_shift)
    IN [words |-> IF straddles THEN {word, word + 1} ELSE {word},
        shl |-> IF straddles THEN {64 - bit_shift} ELSE {},
        value |-> IF straddles /\ 64 - bit_shift < 64
                  THEN OrU64(tmp, ShlU64(StatesWord(sec.src, word + 1), 64 - bit_shift))
                  ELSE tmp]

\* The unaligned branch of palette_index_at with the next word also read when
\* the index ends at the word boundary.
unaligned_shifted_ge(sec, offset) ==
    LET bits == sec.bits
        bit_offset == offset * bits
        word == bit_offset \div 64
        bit_shift == bit_offset % 64
        straddles == bit_shift + bits >= 64
        tmp == ShrU64(StatesWord(sec.src, word), bit_shift)
    IN [words |-> IF straddles THEN {word, word + 1} ELSE {word},
        shl |-> IF straddles THEN {64 - bit_shift} ELSE {},
        value |-> IF straddles /\ 64 - bit_shift < 64
                  THEN OrU64(tmp, ShlU64(StatesWord(sec.src, word + 1), 64 - bit_shift))
                  ELSE tmp]

\* The aligned branch of palette_index_at (lines 97-100): the words read, and
\* the shifted word.
aligned_shifted(sec, offset) ==
    LET bits == sec.bits
        blocks_per_word == 64 \div bits
        word == offset \div blocks_per_word
        shift == offset % blocks_per_word
    IN [words |-> {word},
        shl |-> {},
        value |-> ShrU64(StatesWord(sec.src, word), shift * bits)]

\* The unaligned branch of palette_index_at (lines 101-109): the words read,
\* the left shift made, and the shifted word.
unaligned_shifted(sec, offset) ==
    LET bits == sec.bits
        bit_offset == offset * bits
        word == bit_offset \div 64
        bit_shift == bit_offset % 64
        straddles == bit_shift + bits > 64
        tmp == ShrU64(StatesWord(sec.src, word), bit_shift)
    IN [words |-> IF straddles THEN {word, word + 1} ELSE {word},
        shl |-> IF straddles THEN {64 - bit_shift} ELSE {},
        value |-> IF straddles /\ 64 - bit_shift < 64
                  THEN OrU64(tmp, ShlU64(StatesWord(sec.src, word + 1), 64 - bit_shift))
                  ELSE tmp]

\* SectionV1_13::palette_index_at: the index, the words of block_states it
\* reads and the left shifts it makes; it panics when a word read lies beyond
\* the array or (in a checked build) a shift is by 64 or more.
palette_index_at(sec, coords) ==
    IF sec.block_states = None
    THEN [panic |-> FALSE, index |-> 0, words |-> {}, shl |-> {}]
    ELSE LET offset == SectionOffset(coords)
             s == IF sec.aligned_blocks THEN aligned_shifted(sec, offset)
                  ELSE unaligned_shifted(sec, offset)
             bad == (\E w \in s.words : w >= The(sec.block_states))
                    \/ (\E n \in s.shl : n >= 64)
         IN [panic |-> bad,
             index |-> IF bad THEN 0 ELSE AsUsize(AndMask(s.value, sec.bits)),
             words |-> s.words,
             shl |-> s.shl]

\* Section for SectionV1_13: block_at
block_at(sec, coords) ==
    LET at == palette_index_at(sec, coords)
    IN IF at.panic THEN [at |-> at, res |-> Err("panic")]
       ELSE IF at.index >= sec.palette_len
       THEN [at |-> at, res |-> Err("Palette index out of bounds")]
       ELSE [at |-> at, res |-> Ok(PaletteEntry(at.index))]

\* The palette lengths tried: one for every bit width 4..12 that fills it, a
\* length that leaves indices of its width unused, the shortest, and one too long.
PaletteLens == {2^b : b \in 4 .. 12} \cup {1, 17, 2^12 + 1}
DataVersions == {2528, 2529}

NoSectionIn == [data_version |-> 0, palette_len |-> 0, states_len |-> None,
                bits |-> 0, pattern |-> "scatter", pad |-> 0]
NoSecRead == [called |-> FALSE, coords |-> [x |-> 0, z |-> 0, y |-> 0],
              at |-> [panic |-> FALSE, index |-> 0, words |-> {}, shl |-> {}],
              res |-> Err("")]

SectionIdle ==
    /\ secIn = NoSectionIn
    /\ sec13 = Err("")
    /\ secRead = NoSecRead

\* The inputs of SectionV1_13::new: a palette with a packed array of the
\* length its layout asks for, holding scattered indices or the largest index
\* of the width throughout; a packed array one word short or long; no packed
\* array; a palette that is too long.  The writer packs with the bit width
\* the format prescribes for the palette, palette_bits(len, 4, 12).
SectionStart ==
    /\ \E dv \in DataVersions : \E len \in PaletteLens :
         LET bits == palette_bits(len, 4, 12)
             want == IF bits = None THEN 64 * 12 ELSE expected_length(dv >= 2529, The(bits))
             width == IF bits = None THEN 12 ELSE The(bits)
         IN \/ /\ len # 1
               /\ \E pattern \in {"scatter", "ones"} : \E pad \in {0, 1} :
                    /\ pad = 1 => (dv >= 2529 /\ pattern = "scatter")
                    /\ pattern = "ones" => len \in {17, 2^12, 2^12 + 1}
                    /\ secIn = [data_version |-> dv, palette_len |-> len,
                                states_len |-> Some(want), bits |-> width, pattern |-> pattern, pad |-> pad]
            \/ /\ len = 17
               /\ \E delta \in {-1, 1} :
                    secIn = [data_version |-> dv, palette_len |-> len,
                             states_len |-> Some(want + delta), bits |-> width,
                             pattern |-> "scatter", pad |-> 0]
            \/ /\ len = 1 /\ dv >= 2529
               /\ secIn = [data_version |-> dv, palette_len |-> len,
                           states_len |-> None, bits |-> width, pattern |-> "scatter", pad |-> 0]
    /\ sec13 = Err("")
    /\ secRead = NoSecRead

\* SectionV1_13::new
SectionNew ==
    /\ sec13 = Err("")
    /\ sec13' = SectionV1_13_new(secIn)
    /\ UNCHANGED <<secIn, secRead>>
    /\ UNCHANGED notSectionVars

\* block_at at some position of the section
SectionBlockAt ==
    /\ sec13.ok
    /\ ~secRead.called
    /\ \E x \in 0 .. 15, z \in 0 .. 15, y \in 0 .. 15 :
         LET coords == [x |-> x, z |-> z, y |-> y]
             r == block_at(Val(sec13), coords)
         IN secRead' = [called |-> TRUE, coords |-> coords, at |-> r.at, res |-> r.res]
    /\ UNCHANGED <<secIn, sec13>>
    /\ UNCHANGED notSectionVars

SectionNext == SectionNew \/ SectionBlockAt

--------------------------------------------------------------------------
(***************************************************************************)
(* world/chunk.rs: Chunk::new_v0                                           *)
(***************************************************************************)

\* The longest section list tried.
MaxSections == 2

\* BlockLight::new: the nibble array, when there is one, has 4096 / 2 bytes.
BlockLight_new(block_light) ==
    IF block_light # None /\ The(block_light) # (16 * 16 * 16) \div 2
    THEN Err("Invalid section block light data")
    ELSE Ok(block_light)

\* SectionV0::new: arrays are told by their lengths.
SectionV0_new(blocks, data) ==
    IF blocks # 16 * 16 * 16 THEN Err("Invalid section block data")
    ELSE IF data # (16 * 16 * 16) \div 2 THEN Err("Invalid section extra data")
    ELSE Ok([blocks |-> blocks, data |-> data])

\* The arguments SectionV1_13::new gets for a V1_13 section of a legacy chunk.
SectionV1_13_args(data_version, s) ==
    [data_version |-> data_version, palette_len |-> s.palette_len, states_len |-> Some(s.states_len),
     bits |-> The(palette_bits(s.palette_len, 4, 12)), pattern |-> "scatter", pad |-> 0]

\* Result<Chunk>: a chunk, or an error message with the section Y its context
\* names (if any) and the message of the error it wraps (if any).
ChunkOk(c) == [ok |-> TRUE, val |-> {c}, err |-> "", at |-> {}, cause |-> ""]
ChunkErr(msg) == [ok |-> FALSE, val |-> {}, err |-> msg, at |-> {}, cause |-> ""]
\* .with_context(|| format!("... at Y={}", section.y)) on an error
WithContext(r, msg, y) == [ok |-> FALSE, val |-> {}, err |-> msg, at |-> {y}, cause |-> r.err]

\* BTreeMap::new, insert, is_empty
EmptyMap == << >>
MapInsert(m, k, v) == [j \in DOMAIN m \cup {k} |-> IF j = k THEN v ELSE m[j]]
MapIsEmpty(m) == DOMAIN m = {}

\* The variants of Chunk
ChunkEmpty == [variant |-> "Empty", section_map |-> EmptyMap, biomes |-> None]
ChunkV1_13(section_map, biomes) ==
    [variant |-> "V1_13", section_map |-> section_map, biomes |-> Some(biomes)]
ChunkV0(section_map, biomes) ==
    [variant |-> "V0", section_map |-> section_map, biomes |-> Some(biomes)]

\* new_v0's final match with the biome array demanded before it.
new_v0_result_biomes_first(map_v1_13, map_v0, level_biomes) ==
    IF level_biomes = None THEN ChunkErr("Invalid biome data")
    ELSE IF MapIsEmpty(map_v1_13) /\ MapIsEmpty(map_v0) THEN ChunkOk(ChunkEmpty)
    ELSE IF MapIsEmpty(map_v0) THEN ChunkOk(ChunkV1_13(map_v1_13, The(level_biomes)))
    ELSE IF MapIsEmpty(map_v1_13) THEN ChunkOk(ChunkV0(map_v0, The(level_biomes)))
    ELSE ChunkErr("Mixed section versions")

\* Chunk::new_v0 after its loop (lines 162-179): `biomes` is a Result that only
\* the V1_13 and V0 arms unwrap.
new_v0_result(map_v1_13, map_v0, level_biomes) ==
    LET biomes == IF level_biomes = None THEN ChunkErr("Invalid biome data")
                  ELSE ChunkOk(The(level_biomes))
    IN IF MapIsEmpty(map_v1_13) /\ MapIsEmpty(map_v0) THEN ChunkOk(ChunkEmpty)
       ELSE IF MapIsEmpty(map_v0)
       THEN IF biomes.ok THEN ChunkOk(ChunkV1_13(map_v1_13, Val(biomes))) ELSE biomes
       ELSE IF MapIsEmpty(map_v1_13)
       THEN IF biomes.ok THEN ChunkOk(ChunkV0(map_v0, Val(biomes))) ELSE biomes
       ELSE ChunkErr("Mixed section versions")

\* One pass of new_v0's loop body over `s` (lines 121-158): the error it
\* returns, or the two maps after it.
new_v0_section(data_version, s, map_v1_13, map_v0) ==
    LET block_light == BlockLight_new(s.block_light)
        decoded == IF s.kind = "V1_13"
                   THEN SectionV1_13_new(SectionV1_13_args(data_version, s))
                   ELSE SectionV0_new(s.blocks, s.data)
    IN IF ~block_light.ok
       THEN [ret |-> {WithContext(block_light, "Failed to load section block light at Y", s.y)},
             map_v1_13 |-> map_v1_13, map_v0 |-> map_v0]
       ELSE IF s.kind = "Empty"
       THEN [ret |-> {}, map_v1_13 |-> map_v1_13, map_v0 |-> map_v0]
       ELSE IF ~decoded.ok
       THEN [ret |-> {WithContext(decoded, "Failed to load section at Y", s.y)},
             map_v1_13 |-> map_v1_13, map_v0 |-> map_v0]
       ELSE IF s.kind = "V1_13"
       THEN [ret |-> {},
             map_v1_13 |-> MapInsert(map_v1_13, s.y, <<Val(decoded), Val(block_light)>>),
             map_v0 |-> map_v0]
       ELSE [ret |-> {},
             map_v1_13 |-> map_v1_13,
             map_v0 |-> MapInsert(map_v0, s.y, <<Val(decoded), Val(block_light)>>)]

\* de::SectionV0: its Y, its block light array (by length) and one of the three
\* shapes of de::SectionV0Variants (arrays by length).
LegacySectionYs == {0, 1}
BlockLightLens == {None, Some(2048), Some(2047)}
SectionShapes ==
    {[kind |-> "Empty", blocks |-> 0, data |-> 0, palette_len |-> 0, states_len |-> 0]}
    \cup {[kind |-> "V0", blocks |-> b[1], data |-> b[2], palette_len |-> 0, states_len |-> 0] :
            b \in {<<4096, 2048>>, <<4095, 2048>>, <<4096, 2047>>}}
    \cup {[kind |-> "V1_13", blocks |-> 0, data |-> 0, palette_len |-> 17, states_len |-> n] :
            n \in {320, 342}}
LegacySection(y, light, shape) ==
    [y |-> y, block_light |-> light, kind |-> shape.kind, blocks |-> shape.blocks,
     data |-> shape.data, palette_len |-> shape.palette_len, states_len |-> shape.states_len]
LegacySections ==
    {LegacySection(y, l, sh) : y \in LegacySectionYs, l \in BlockLightLens, sh \in SectionShapes}

NoChunkArgs == [data_version |-> 0, sections |-> << >>, biomes |-> None]

ChunkIdle ==
    /\ chunkArgs = NoChunkArgs
    /\ cpc = "idle"
    /\ cidx = 0
    /\ section_map_v1_13 = EmptyMap
    /\ section_map_v0 = EmptyMap
    /\ chunkRes = ChunkErr("")

\* Entry of new_v0: a data version, a list of sections and the chunk's biome
\* array or none; both maps are empty.
ChunkStart ==
    /\ \E dv \in DataVersions : \E n \in 0 .. MaxSections :
         \E sections \in [1 .. n -> LegacySections] : \E biomes \in {None, Some("ByteArray")} :
           chunkArgs = [data_version |-> dv, sections |-> sections, biomes |-> biomes]
    /\ cpc = "loop"
    /\ cidx = 0
    /\ section_map_v1_13 = EmptyMap
    /\ section_map_v0 = EmptyMap
    /\ chunkRes = ChunkErr("")

\* The pass new_v0's loop makes next: over the section after the cidx visited.
NextPass ==
    new_v0_section(chunkArgs.data_version, chunkArgs.sections[cidx + 1],
                   section_map_v1_13, section_map_v0)

\* A pass of `for section in &level.sections` that decodes (or skips) its
\* section
NewV0Section ==
    /\ cpc = "loop"
    /\ cidx < Len(chunkArgs.sections)
    /\ NextPass.ret = {}
    /\ section_map_v1_13' = NextPass.map_v1_13
    /\ section_map_v0' = NextPass.map_v0
    /\ cidx' = cidx + 1
    /\ UNCHANGED <<chunkArgs, cpc, chunkRes>>
    /\ UNCHANGED notChunkVars

\* A pass of the loop in which a decoder fails: new_v0 returns the error
NewV0SectionError ==
    /\ cpc = "loop"
    /\ cidx < Len(chunkArgs.sections)
    /\ NextPass.ret # {}
    /\ chunkRes' = The(NextPass.ret)
    /\ cpc' = "done"
    /\ UNCHANGED <<chunkArgs, cidx, section_map_v1_13, section_map_v0>>
    /\ UNCHANGED notChunkVars

\* After the loop: the match on the two maps
NewV0Finish ==
    /\ cpc = "loop"
    /\ cidx = Len(chunkArgs.sections)
    /\ chunkRes' = new_v0_result(section_map_v1_13, section_map_v0, chunkArgs.biomes)
    /\ cpc' = "done"
    /\ UNCHANGED <<chunkArgs, cidx, section_map_v1_13, section_map_v0>>
    /\ UNCHANGED notChunkVars

ChunkNext == NewV0Section \/ NewV0SectionError \/ NewV0Finish

--------------------------------------------------------------------------
(***************************************************************************)
(* bin/minedmap/region_group.rs: RegionGroup                               *)
(***************************************************************************)

\* The cells of the 3x3 neighbourhood
Cells == (-1 .. 1) \X (-1 .. 1)

\* The group RegionGroup::new starts from (lines 22-35): every cell holds its
\* own coordinates; neighs[4] is None.
CoordGroup ==
    [center |-> <<0, 0>>,
     neighs |-> [i \in 0 .. 8 |->
                   IF i = 4 THEN None ELSE Some(<<(i \div 3) - 1, (i % 3) - 1>>)]]

\* RegionGroup::try_map, f a function from the cells' values to Results
try_map(group, f) ==
    LET center == f[group.center]
    IN IF ~center.ok THEN Err(center.err)
       ELSE Ok([center |-> Val(center),
                neighs |-> [i \in 0 .. 8 |->
                              IF group.neighs[i] = None THEN None
                              ELSE LET r == f[The(group.neighs[i])]
                                   IN IF r.ok THEN Some(Val(r)) ELSE None]])

\* RegionGroup::new
RegionGroup_new(f) == try_map(CoordGroup, f)

\* RegionGroup::get with the index 3 * z + x + 4.
get_transposed(group, x, z) ==
    IF <<x, z>> = <<0, 0>> THEN [panic |-> FALSE, val |-> Some(group.center)]
    ELSE IF x \notin -1 .. 1 \/ z \notin -1 .. 1 THEN [panic |-> FALSE, val |-> None]
    ELSE [panic |-> FALSE, val |-> group.neighs[3 * z + x + 4]]

\* RegionGroup::get: the Option it returns; the index is computed in i8, which
\* panics on overflow in a checked build, and cast to usize.
get(group, x, z) ==
    IF <<x, z>> = <<0, 0>> THEN [panic |-> FALSE, val |-> Some(group.center)]
    ELSE IF x \notin -1 .. 1 \/ z \notin -1 .. 1 THEN [panic |-> FALSE, val |-> None]
    ELSE LET index == 3 * x + z + 4
         IN IF ~InI8(3 * x) \/ ~InI8(3 * x + z) \/ ~InI8(index)
            THEN [panic |-> TRUE, val |-> None]
            ELSE IF index \notin 0 .. 8 THEN [panic |-> FALSE, val |-> None]
            ELSE [panic |-> FALSE, val |-> group.neighs[index]]

\* What the caller's f returns for a cell: a value that names the cell (and
\* the caller, by `salt`), or an error for the cells in `fails`.
FValue(args, cell) == [x |-> cell[1], z |-> cell[2], salt |-> args.salt]
F(args) == [cell \in Cells |-> IF cell \in args.fails THEN Err("f failed")
                                ELSE Ok(FValue(args, cell))]

\* The i8 arguments get is called with
GetArgs == {-128, -2, -1, 0, 1, 2, 127}

NoGroupArgs == [fails |-> {}, salt |-> 0]
NoGetRes == [called |-> FALSE, x |-> 0, z |-> 0, panic |-> FALSE, val |-> None]

GroupIdle ==
    /\ groupArgs = NoGroupArgs
    /\ groupRes = Err("")
    /\ getRes = NoGetRes

GroupStart ==
    /\ \E fails \in SUBSET Cells : \E salt \in {1, 2} :
         groupArgs = [fails |-> fails, salt |-> salt]
    /\ groupRes = Err("")
    /\ getRes = NoGetRes

\* RegionGroup::new(f)
GroupNew ==
    /\ groupRes = Err("")
    /\ groupRes' = RegionGroup_new(F(groupArgs))
    /\ UNCHANGED <<groupArgs, getRes>>
    /\ UNCHANGED notGroupVars

\* get(x, z) on the group built
GroupGet ==
    /\ groupRes.ok
    /\ ~getRes.called
    /\ \E x \in GetArgs, z \in GetArgs :
         LET r == get(Val(groupRes), x, z)
         IN getRes' = [called |-> TRUE, x |-> x, z |-> z, panic |-> r.panic, val |-> r.val]
    /\ UNCHANGED <<groupArgs, groupRes>>
    /\ UNCHANGED notGroupVars

GroupNext == GroupNew \/ GroupGet

--------------------------------------------------------------------------
(***************************************************************************)
(* bin/minedmap/region_group.rs: RegionGroup::iter, map, try_map           *)
(***************************************************************************)

\* self.neighs.iter().filter_map(Option::as_ref), from index i on
RECURSIVE present_from(_, _)
present_from(neighs, i) ==
    IF i > 8 THEN << >>
    ELSE (IF neighs[i] = None THEN << >> ELSE <<The(neighs[i])>>)
         \o present_from(neighs, i + 1)

\* RegionGroup::iter with the center chained after the neighbours.
iter_center_last(group) == present_from(group.neighs, 0) \o <<group.center>>

\* RegionGroup::iter: the items in the order they are yielded
iter(group) == <<group.center>> \o present_from(group.neighs, 0)

\* RegionGroup::map, f a function from the cells' values to values
map(group, f) ==
    [center |-> f[group.center],
     neighs |-> [i \in 0 .. 8 |->
                   IF group.neighs[i] = None THEN None
                   ELSE Some(f[The(group.neighs[i])])]]

\* The values a group built by RegionGroup::new(F(args)) can hold
FValues(args) == {FValue(args, cell) : cell \in Cells}

\* What the caller of map passes: a total function that marks the value
MapFn(args) == [v \in FValues(args) |-> [x |-> v.x, z |-> v.z, salt |-> v.salt + 10]]

\* What the caller of try_map passes: it fails for the values of the cells in
\* args.gfails
TryMapFn(args) ==
    [v \in FValues(args) |-> IF <<v.x, v.z>> \in args.gfails THEN Err("g failed")
                             ELSE Ok(MapFn(args)[v])]

\* The sets of cells the function passed to try_map fails for
GFails == {s \in SUBSET Cells : Cardinality(s) <= 2}

NoOpArgs == [fails |-> {}, salt |-> 0, gfails |-> {}]
NoOpRes == [op |-> "none", items |-> << >>, res |-> Err("")]

OpsIdle ==
    /\ opArgs = NoOpArgs
    /\ opGroup = Err("")
    /\ opRes = NoOpRes

OpsStart ==
    /\ \E fails \in SUBSET Cells : \E gfails \in GFails :
         opArgs = [fails |-> fails, salt |-> 1, gfails |-> gfails]
    /\ opGroup = Err("")
    /\ opRes = NoOpRes

\* RegionGroup::new(f)
OpsNew ==
    /\ opGroup = Err("")
    /\ opGroup' = RegionGroup_new(F(opArgs))
    /\ UNCHANGED <<opArgs, opRes>>
    /\ UNCHANGED notOpsVars

\* iter() on the group built, collected
OpsIter ==
    /\ opGroup.ok
    /\ opRes.op = "none"
    /\ opRes' = [op |-> "iter", items |-> iter(Val(opGroup)), res |-> Err("")]
    /\ UNCHANGED <<opArgs, opGroup>>
    /\ UNCHANGED notOpsVars

\* map(f) on the group built
OpsMap ==
    /\ opGroup.ok
    /\ opRes.op = "none"
    /\ opRes' = [op |-> "map", items |-> << >>, res |-> Ok(map(Val(opGroup), MapFn(opArgs)))]
    /\ UNCHANGED <<opArgs, opGroup>>
    /\ UNCHANGED notOpsVars

\* try_map(g) on the group built
OpsTryMap ==
    /\ opGroup.ok
    /\ opRes.op = "none"
    /\ opRes' = [op |-> "try_map", items |-> << >>,
                 res |-> try_map(Val(opGroup), TryMapFn(opArgs))]
    /\ UNCHANGED <<opArgs, opGroup>>
    /\ UNCHANGED notOpsVars

OpsNext == OpsNew \/ OpsIter \/ OpsMap \/ OpsTryMap

--------------------------------------------------------------------------
(***************************************************************************)
(* main.rs: RegionProcessor::process_region and save_region                *)
(***************************************************************************)

\* The most chunks a region file holds in the model (32 x 32 in the game).
MaxChunks == 3

\* Result<()>: unit, or an error message with the coordinates its context
\* names (if any) and the message of the error it wraps (if any).
UnitOk == [ok |-> TRUE, val |-> {}, err |-> "", at |-> {}, cause |-> ""]

\* process_chunk on the chunk at position i of the region file: Chunk::new
\* fails, or top_layer fails, or the chunk's top layer is returned.
ChunkOutcomes == {"ok", "chunk_new_fails", "top_layer_fails"}
process_chunk(outcome, i) ==
    IF outcome = "chunk_new_fails" THEN Err("Chunk::new failed")
    ELSE IF outcome = "top_layer_fails" THEN Err("top_layer failed")
    ELSE Ok(<<"top layer of", i>>)

\* The closure process_region passes to foreach_chunk (lines 116-122): the
\* Result it returns and processed_region after it.  The chunk's position in
\* the file stands for its coordinates.
region_closure(outcome, chunk_coords, processed) ==
    LET processed_chunk == process_chunk(outcome, chunk_coords)
    IN IF ~processed_chunk.ok
       THEN [ret |-> WithContext(processed_chunk, "Failed to process chunk", chunk_coords),
             processed_region |-> processed]
       ELSE [ret |-> UnitOk,
             processed_region |-> MapInsert(processed, chunk_coords, Val(processed_chunk))]

\* What a path of the processed directory holds: nothing, what an earlier run
\* left, this run's artifact, or part of it (a write that failed).
OldFiles == {"none", "old"}

NoRegionArgs == [chunks |-> << >>, tmp0 |-> "none", final0 |-> "none"]

RegionIdle ==
    /\ regionArgs = NoRegionArgs
    /\ rpc = "idle"
    /\ visited = << >>
    /\ processed_region = EmptyMap
    /\ fsTmp = "none"
    /\ fsFinal = "none"
    /\ fsOps = << >>
    /\ regionRes = ChunkErr("")

\* Entry of process_region: the chunks of the region file, and the processed
\* directory as an earlier run left it.
RegionStart ==
    /\ \E n \in 0 .. MaxChunks : \E chunks \in [1 .. n -> ChunkOutcomes] :
         \E tmp0 \in OldFiles, final0 \in OldFiles :
           /\ regionArgs = [chunks |-> chunks, tmp0 |-> tmp0, final0 |-> final0]
           /\ fsTmp = tmp0
           /\ fsFinal = final0
    /\ rpc = "open"
    /\ visited = << >>
    /\ processed_region = EmptyMap
    /\ fsOps = << >>
    /\ regionRes = ChunkErr("")

\* region::from_file(path)? succeeds
RegionOpen ==
    /\ rpc = "open"
    /\ rpc' = "chunks"
    /\ UNCHANGED <<regionArgs, visited, processed_region, fsTmp, fsFinal, fsOps, regionRes>>
    /\ UNCHANGED notRegionVars

\* region::from_file(path)? fails
RegionOpenError ==
    /\ rpc = "open"
    /\ rpc' = "done"
    /\ regionRes' = ChunkErr("Failed to open region file")
    /\ UNCHANGED <<regionArgs, visited, processed_region, fsTmp, fsFinal, fsOps>>
    /\ UNCHANGED notRegionVars

\* foreach_chunk with a failing chunk logged and passed over.
ProcessChunkError_continue ==
    /\ rpc = "chunks"
    /\ Len(visited) < Len(regionArgs.chunks)
    /\ LET i == Len(visited) + 1
           r == region_closure(regionArgs.chunks[i], i, processed_region)
       IN /\ ~r.ret.ok
          /\ visited' = Append(visited, i)
    /\ UNCHANGED <<regionArgs, rpc, processed_region, fsTmp, fsFinal, fsOps, regionRes>>
    /\ UNCHANGED notRegionVars

\* foreach_chunk calls the closure for the next chunk, which succeeds
ProcessChunk ==
    /\ rpc = "chunks"
    /\ Len(visited) < Len(regionArgs.chunks)
    /\ LET i == Len(visited) + 1
           r == region_closure(regionArgs.chunks[i], i, processed_region)
       IN /\ r.ret.ok
          /\ visited' = Append(visited, i)
          /\ processed_region' = r.processed_region
    /\ UNCHANGED <<regionArgs, rpc, fsTmp, fsFinal, fsOps, regionRes>>
    /\ UNCHANGED notRegionVars

\* foreach_chunk calls the closure for the next chunk, which fails:
\* foreach_chunk returns the error and `?` returns it from process_region
ProcessChunkError ==
    /\ rpc = "chunks"
    /\ Len(visited) < Len(regionArgs.chunks)
    /\ LET i == Len(visited) + 1
           r == region_closure(regionArgs.chunks[i], i, processed_region)
       IN /\ ~r.ret.ok
          /\ visited' = Append(visited, i)
          /\ regionRes' = r.ret
    /\ rpc' = "done"
    /\ UNCHANGED <<regionArgs, processed_region, fsTmp, fsFinal, fsOps>>
    /\ UNCHANGED notRegionVars

\* save_region: storage::write(&tmp_path, processed_region) succeeds
SaveWrite ==
    /\ rpc = "chunks"
    /\ Len(visited) = Len(regionArgs.chunks)
    /\ fsTmp' = "new"
    /\ fsOps' = Append(fsOps, "write tmp")
    /\ rpc' = "rename"
    /\ UNCHANGED <<regionArgs, visited, processed_region, fsFinal, regionRes>>
    /\ UNCHANGED notRegionVars

\* save_region: storage::write fails, before or after it touched the file
SaveWriteError ==
    /\ rpc = "chunks"
    /\ Len(visited) = Len(regionArgs.chunks)
    /\ fsTmp' \in {fsTmp, "partial"}
    /\ fsOps' = Append(fsOps, "write tmp")
    /\ regionRes' = ChunkErr("Failed to write file")
    /\ rpc' = "done"
    /\ UNCHANGED <<regionArgs, visited, processed_region, fsFinal>>
    /\ UNCHANGED notRegionVars

\* save_region: fs::rename(&tmp_path, &output_path) succeeds
SaveRename ==
    /\ rpc = "rename"
    /\ fsFinal' = fsTmp
    /\ fsTmp' = "none"
    /\ fsOps' = Append(fsOps, "rename")
    /\ regionRes' = UnitOk
    /\ rpc' = "done"
    /\ UNCHANGED <<regionArgs, visited, processed_region>>
    /\ UNCHANGED notRegionVars

\* save_region: fs::rename fails
SaveRenameError ==
    /\ rpc = "rename"
    /\ fsOps' = Append(fsOps, "rename")
    /\ regionRes' = [ok |-> FALSE, val |-> {}, err |-> "Failed to rename", at |-> {},
                     cause |-> "rename failed"]
    /\ rpc' = "done"
    /\ UNCHANGED <<regionArgs, visited, processed_region, fsTmp, fsFinal>>
    /\ UNCHANGED notRegionVars

RegionNext ==
    \/ RegionOpen \/ RegionOpenError
    \/ ProcessChunk \/ ProcessChunkError
    \/ SaveWrite \/ SaveWriteError
    \/ SaveRename \/ SaveRenameError

--------------------------------------------------------------------------
(***************************************************************************)
(* main.rs: RegionProcessor::run and main                                  *)
(***************************************************************************)

\* The most entries the region directory holds.
MaxEntries == 3

\* An entry of read_dir: one that read_dir fails on, one that is not a regular
\* file, a file whose name is not r.X.Z.mca, or a region file, for which
\* process_region saves the artifact or fails.
EntryKinds == {"entry error", "directory", "other file", "region ok", "region fails"}

\* The filter of the loop (lines 150-156) and parse_region_filename: the
\* coordinates of the entry at position i, if it is a region file.  The entry's
\* position stands for the X of its name.
entry_coords(kind, i) ==
    IF kind \in {"region ok", "region fails"} THEN Some(<<i, 0>>) ELSE None

\* process_region on the region file at position i
process_region(kind, i) ==
    IF kind = "region ok" THEN UnitOk ELSE ChunkErr("Failed to process region")

\* Result<Vec<RegionCoords>>
RunOk(v) == [ok |-> TRUE, val |-> {v}, err |-> "", at |-> {}, cause |-> ""]

RunIdle ==
    /\ runArgs = << >>
    /\ runpc = "idle"
    /\ runRet = << >>
    /\ runSeen = 0
    /\ attempted = << >>
    /\ saved = {}
    /\ runRes = ChunkErr("")
    /\ tiles = << >>

\* Entry of main: the entries of the region directory.
RunStart ==
    /\ \E n \in 0 .. MaxEntries : runArgs \in [1 .. n -> EntryKinds]
    /\ runpc = "read_dir"
    /\ runRet = << >>
    /\ runSeen = 0
    /\ attempted = << >>
    /\ saved = {}
    /\ runRes = ChunkErr("")
    /\ tiles = << >>

\* self.config.region_dir.read_dir() succeeds
RunReadDir ==
    /\ runpc = "read_dir"
    /\ runpc' = "create_dir"
    /\ UNCHANGED <<runArgs, runRet, runSeen, attempted, saved, runRes, tiles>>
    /\ UNCHANGED notRunVars

\* read_dir fails: run returns the error
RunReadDirError ==
    /\ runpc = "read_dir"
    /\ runpc' = "failed"
    /\ runRes' = [ok |-> FALSE, val |-> {}, err |-> "Failed to read directory", at |-> {},
                  cause |-> "read_dir failed"]
    /\ UNCHANGED <<runArgs, runRet, runSeen, attempted, saved, tiles>>
    /\ UNCHANGED notRunVars

\* fs::create_dir_all(&self.config.processed_dir) succeeds
RunCreateDir ==
    /\ runpc = "create_dir"
    /\ runpc' = "loop"
    /\ UNCHANGED <<runArgs, runRet, runSeen, attempted, saved, runRes, tiles>>
    /\ UNCHANGED notRunVars

\* create_dir_all fails: run returns the error
RunCreateDirError ==
    /\ runpc = "create_dir"
    /\ runpc' = "failed"
    /\ runRes' = [ok |-> FALSE, val |-> {}, err |-> "Failed to create directory", at |-> {},
                  cause |-> "create_dir_all failed"]
    /\ UNCHANGED <<runArgs, runRet, runSeen, attempted, saved, tiles>>
    /\ UNCHANGED notRunVars

\* The next entry is filtered out, or its name does not parse: continue
RunSkip ==
    /\ runpc = "loop"
    /\ runSeen < Len(runArgs)
    /\ entry_coords(runArgs[runSeen + 1], runSeen + 1) = None
    /\ runSeen' = runSeen + 1
    /\ UNCHANGED <<runArgs, runpc, runRet, attempted, saved, runRes, tiles>>
    /\ UNCHANGED notRunVars

\* The next entry is a region file and process_region succeeds: its
\* coordinates are pushed
RunRegion ==
    /\ runpc = "loop"
    /\ runSeen < Len(runArgs)
    /\ LET coords == entry_coords(runArgs[runSeen + 1], runSeen + 1)
       IN /\ coords # None
          /\ process_region(runArgs[runSeen + 1], runSeen + 1).ok
          /\ attempted' = Append(attempted, The(coords))
          /\ saved' = saved \cup {The(coords)}
          /\ runRet' = Append(runRet, The(coords))
    /\ runSeen' = runSeen + 1
    /\ UNCHANGED <<runArgs, runpc, runRes, tiles>>
    /\ UNCHANGED notRunVars

\* The next entry is a region file and process_region fails: the error is
\* printed (lines 162-168), and the coordinates are pushed (line 170)
RunRegionError ==
    /\ runpc = "loop"
    /\ runSeen < Len(runArgs)
    /\ LET coords == entry_coords(runArgs[runSeen + 1], runSeen + 1)
       IN /\ coords # None
          /\ ~process_region(runArgs[runSeen + 1], runSeen + 1).ok
          /\ attempted' = Append(attempted, The(coords))
          /\ runRet' = Append(runRet, The(coords))
    /\ runSeen' = runSeen + 1
    /\ UNCHANGED <<runArgs, runpc, saved, runRes, tiles>>
    /\ UNCHANGED notRunVars

\* After the loop: Ok(ret)
RunReturn ==
    /\ runpc = "loop"
    /\ runSeen = Len(runArgs)
    /\ runRes' = RunOk(runRet)
    /\ runpc' = "returned"
    /\ UNCHANGED <<runArgs, runRet, runSeen, attempted, saved, tiles>>
    /\ UNCHANGED notRunVars

\* main: TileRenderer::new(&config).run(&regions) is handed the list
MainRender ==
    /\ runpc = "returned"
    /\ tiles' = Val(runRes)
    /\ runpc' = "rendered"
    /\ UNCHANGED <<runArgs, runRet, runSeen, attempted, saved, runRes>>
    /\ UNCHANGED notRunVars

RunNext ==
    \/ RunReadDir \/ RunReadDirError
    \/ RunCreateDir \/ RunCreateDirError
    \/ RunSkip \/ RunRegion \/ RunRegionError
    \/ RunReturn \/ MainRender

--------------------------------------------------------------------------
(***************************************************************************)
(* Specifications                                                          *)
(***************************************************************************)

InitLayer == LayerStart /\ CoordIdle /\ PalIdle /\ SectionIdle /\ ChunkIdle /\ GroupIdle /\ OpsIdle
    /\ RegionIdle /\ RunIdle
InitCoord == CoordStart /\ LayerIdle /\ PalIdle /\ SectionIdle /\ ChunkIdle /\ GroupIdle /\ OpsIdle
    /\ RegionIdle /\ RunIdle
InitPal == PalStart /\ LayerIdle /\ CoordIdle /\ SectionIdle /\ ChunkIdle /\ GroupIdle /\ OpsIdle
    /\ RegionIdle /\ RunIdle
InitSection == SectionStart /\ LayerIdle /\ CoordIdle /\ PalIdle /\ ChunkIdle /\ GroupIdle /\ OpsIdle
    /\ RegionIdle /\ RunIdle
InitChunk == ChunkStart /\ LayerIdle /\ CoordIdle /\ PalIdle /\ SectionIdle /\ GroupIdle /\ OpsIdle
    /\ RegionIdle /\ RunIdle
InitGroup == GroupStart /\ LayerIdle /\ CoordIdle /\ PalIdle /\ SectionIdle /\ ChunkIdle /\ OpsIdle
    /\ RegionIdle /\ RunIdle
InitOps == OpsStart /\ LayerIdle /\ CoordIdle /\ PalIdle /\ SectionIdle /\ ChunkIdle /\ GroupIdle
    /\ RegionIdle /\ RunIdle
InitRegion == RegionStart /\ LayerIdle /\ CoordIdle /\ PalIdle /\ SectionIdle /\ ChunkIdle
    /\ GroupIdle /\ OpsIdle /\ RunIdle
InitRun == RunStart /\ LayerIdle /\ CoordIdle /\ PalIdle /\ SectionIdle /\ ChunkIdle
    /\ GroupIdle /\ OpsIdle /\ RegionIdle

SpecLayer == InitLayer /\ [][LayerNext]_vars
SpecCoord == InitCoord /\ [][CoordNext]_vars
SpecPal == InitPal /\ [][PalNext]_vars
SpecSection == InitSection /\ [][SectionNext]_vars
SpecChunk == InitChunk /\ [][ChunkNext]_vars
SpecGroup == InitGroup /\ [][GroupNext]_vars
SpecOps == InitOps /\ [][OpsNext]_vars
SpecRegion == InitRegion /\ [][RegionNext]_vars
SpecRun == InitRun /\ [][RunNext]_vars

Init == InitLayer \/ InitCoord \/ InitPal \/ InitSection \/ InitChunk \/ InitGroup
        \/ InitOps \/ InitRegion \/ InitRun
Next == LayerNext \/ CoordNext \/ PalNext \/ SectionNext \/ ChunkNext \/ GroupNext
        \/ OpsNext \/ RegionNext \/ RunNext
Spec == Init /\ [][Next]_vars

--------------------------------------------------------------------------
(***************************************************************************)
(* Properties of top_layer                                                 *)
(***************************************************************************)

\* World-Y of a block of the chunk.
WorldY(sy, y) == sy * BlocksPerChunk + y

\* The blocks of column k with a block type that satisfies P: their world-Ys.
ColumnYs(k, P(_)) ==
    { WorldY(s, y) : <<s, y>> \in
        { q \in (DOMAIN chunk.section_map) \X BlockYs :
            LET b == chunk.section_map[q[1]].blocks[<<q[2], k>>]
            IN b.ok /\ Val(b) # None /\ P(The(Val(b))) } }

\* The block type of column k at world-Y h.
TypeAtY(k, h) ==
    LET q == CHOOSE q \in (DOMAIN chunk.section_map) \X BlockYs : WorldY(q[1], q[2]) = h
    IN The(Val(chunk.section_map[q[1]].blocks[<<q[2], k>>]))

IsOpaque(t) == Is(t, "Opaque")
IsOpaqueNoWater(t) == Is(t, "Opaque") /\ ~Is(t, "Water")

\* C1: at every step of the scan and at its end, in every column cell: a set
\* depth implies a set block_type; and a set block_type without the Water flag
\* implies that depth is set and is the world-Y of the block that supplied
\* block_type.
C1_DepthAndType ==
    \A k \in XZKeys :
        LET e == ret.blocks[k]
        IN /\ e.depth # None => e.block_type # None
           /\ (e.block_type # None /\ ~Is(The(e.block_type), "Water"))
                => (e.depth # None /\ e.depth = supplied[k])

\* C1's case: in the middle of the scan, one column is done with stone and
\* another holds water with no depth yet.
C1_Witness ==
    /\ lpc = "scan"
    /\ \E k \in XZKeys : ret.blocks[k].block_type = Some(Stone) /\ ret.blocks[k].depth # None
    /\ \E k \in XZKeys : ret.blocks[k].block_type = Some(Water) /\ ret.blocks[k].depth = None

\* C2: when top_layer returns a LayerData, every column's block_type is the type
\* of the highest block with the Opaque flag (unset if there is none) and its
\* depth the world-Y of the highest block with Opaque and without Water (unset if
\* there is none).
C2_TopmostOpaque ==
    lpc = "some" =>
        \A k \in XZKeys :
            LET e == ret.blocks[k]
                op == ColumnYs(k, IsOpaque)
                fl == ColumnYs(k, IsOpaqueNoWater)
            IN /\ e.block_type = IF op = {} THEN None ELSE Some(TypeAtY(k, Max(op)))
               /\ e.depth = IF fl = {} THEN None ELSE Some(Max(fl))

\* C2's case: a column of air over water over a stone floor ends with
\* block_type water and the floor's world-Y as depth.
C2_Witness ==
    /\ lpc = "some"
    /\ \E k \in XZKeys :
        /\ ret.blocks[k].block_type = Some(Water)
        /\ ret.blocks[k].depth # None
        /\ ColumnYs(k, IsOpaqueNoWater) = {The(ret.blocks[k].depth)}
        /\ \E h \in ColumnYs(k, LAMBDA t : t = Air) : h > Max(ColumnYs(k, IsOpaque))

\* C3 (as claimed): once done has reached the number of columns the scan is
\* over: no further y layer and no lower section is visited.
C3_BreaksOutOfAllLoops == done = NumColumns => lpc # "scan"

\* C4: when top_layer returns a LayerData, a column in which no block has the
\* Opaque flag is empty, and its block light is that of y = 0 of the lowest
\* populated section.
C4_EmptyColumnLight ==
    (lpc = "some" /\ DOMAIN chunk.section_map # {}) =>
        \A k \in XZKeys :
            ColumnYs(k, IsOpaque) = {} =>
                /\ ret.blocks[k] = [block_type |-> None, depth |-> None]
                /\ ret.block_light[k] =
                      block_light_at(chunk.section_map[Min(DOMAIN chunk.section_map)].light,
                                     [xz |-> k, y |-> Min(BlockYs)])

\* C4's case: two populated sections, the upper with block light and the lower
\* without, and a column without any opaque block.
C4_Witness ==
    /\ lpc = "some"
    /\ Cardinality(DOMAIN chunk.section_map) = 2
    /\ chunk.section_map[Max(DOMAIN chunk.section_map)].light # None
    /\ chunk.section_map[Min(DOMAIN chunk.section_map)].light = None
    /\ \E k \in XZKeys : ColumnYs(k, IsOpaque) = {} /\ ret.block_light[k] = 0

LayerShapeOk ==
    /\ DOMAIN ret.blocks = XZKeys
    /\ DOMAIN ret.biomes = XZKeys
    /\ DOMAIN ret.block_light = XZKeys

--------------------------------------------------------------------------
(***************************************************************************)
(* Properties of coord_offset and palette_bits                             *)
(***************************************************************************)

\* C6: for every chunk coordinate c, block coordinate b and offset d with
\* |d| <= 512, coord_offset does not panic and returns (r, c', b') with r in
\* {-1, 0, 1}, c' in 0..31, b' in 0..15 and (r*32 + c')*16 + b' = c*16 + b + d;
\* offsets 0, -512 and 512 return (0, c, b), (-1, c, b) and (1, c, b).
C6_CoordOffset ==
    (coordRes.called /\ -512 <= coordRes.offset /\ coordRes.offset <= 512) =>
        LET c == coordArgs.chunk
            b == coordArgs.block
            d == coordRes.offset
            r == coordRes
        IN /\ ~r.panic
           /\ r.region \in {-1, 0, 1}
           /\ r.chunk \in 0 .. 31
           /\ r.block \in 0 .. 15
           /\ (r.region * 32 + r.chunk) * 16 + r.block = c * 16 + b + d
           /\ d = 0 => <<r.region, r.chunk, r.block>> = <<0, c, b>>
           /\ d = -512 => <<r.region, r.chunk, r.block>> = <<-1, c, b>>
           /\ d = 512 => <<r.region, r.chunk, r.block>> = <<1, c, b>>

\* C6's case: an offset that leaves the region downwards through a chunk and
\* block that are not at the region's edge.
C6_Witness ==
    /\ coordRes.called
    /\ coordArgs = [chunk |-> 3, block |-> 5]
    /\ coordRes.offset = -100
    /\ <<coordRes.region, coordRes.chunk, coordRes.block>> = <<-1, 29, 1>>

\* C7: palette_bits(len, min, max) returns b exactly for the b with
\* min <= b <= max, 2^b >= len and (b > min => 2^(b-1) < len), and None exactly
\* when there is no such b; len = 1 gives min, len = 2^max gives max and
\* len = 2^max + 1 gives None.
C7_PaletteBits ==
    palRes.called =>
        LET len == palArgs.len
            min == palArgs.min
            max == palArgs.max
            Fits(b) == /\ min <= b /\ b <= max
                       /\ 2^b >= len
                       /\ b > min => 2^(b - 1) < len
        IN /\ \A b \in 0 .. (max + 2) : (palRes.bits = Some(b)) <=> Fits(b)
           /\ (palRes.bits = None) <=> ~\E b \in 0 .. (max + 2) : Fits(b)
           /\ palRes.bits \subseteq 0 .. (max + 2)
           /\ len = 1 => palRes.bits = Some(min)
           /\ len = 2^max => palRes.bits = Some(max)
           /\ len = 2^max + 1 => palRes.bits = None

\* C7's case: a block palette of 2^12 + 1 entries has no bit width.
C7_Witness ==
    /\ palRes.called
    /\ palArgs = [len |-> 4097, min |-> 4, max |-> 12]
    /\ palRes.bits = None

--------------------------------------------------------------------------
(***************************************************************************)
(* Properties of SectionV1_13                                              *)
(***************************************************************************)

\* C8: for a section built from a palette and a packed array that holds, in the
\* layout of its data version and with the bit width palette_bits gives, an
\* index below the palette's length at every offset: block_at at the position
\* with offset off = y*256 + z*16 + x returns the palette entry of the index
\* stored for off (also where the index straddles two words, and where the top
\* bit of a word is set).
C8_RoundTrip ==
    (secRead.called /\ Val(sec13).block_states # None) =>
        LET off == secRead.coords.y * 256 + secRead.coords.z * 16 + secRead.coords.x
            i == RawIndex(secIn, off)
        IN i < secIn.palette_len =>
              /\ secRead.res = Ok(PaletteEntry(i))
              /\ secRead.at.index = i

\* C8's case: in the unaligned layout an index that straddles two words, the
\* first of which has its top bit set, has been read back.
C8_Witness ==
    /\ secRead.called
    /\ ~Val(sec13).aligned_blocks
    /\ Cardinality(secRead.at.words) = 2
    /\ PackedBit(secIn, Min(secRead.at.words), 63) = 1
    /\ secRead.res.ok
    /\ Val(secRead.res) # None
    /\ secRead.at.index > 0

--------------------------------------------------------------------------
(***************************************************************************)
(* Properties of Chunk::new_v0                                             *)
(***************************************************************************)

LegacyDecoderOk(s) ==
    /\ BlockLight_new(s.block_light).ok
    /\ s.kind = "V1_13" => SectionV1_13_new(SectionV1_13_args(chunkArgs.data_version, s)).ok
    /\ s.kind = "V0" => SectionV0_new(s.blocks, s.data).ok
AllDecodersOk ==
    \A i \in 1 .. Len(chunkArgs.sections) : LegacyDecoderOk(chunkArgs.sections[i])
HasShape(kind) ==
    \E i \in 1 .. Len(chunkArgs.sections) : chunkArgs.sections[i].kind = kind
YsOfShape(kind) ==
    {chunkArgs.sections[i].y : i \in {j \in 1 .. Len(chunkArgs.sections) :
                                         chunkArgs.sections[j].kind = kind}}

\* C9: when new_v0 has returned and every section decoder of the list
\* constructs: a list with both a V1_13 and a V0 section gives the error "Mixed
\* section versions"; a list with neither gives Chunk::Empty, also without a
\* biome array; a list with one of the two shapes gives the chunk of that shape
\* holding the sections of the list if the biome array is present and an error
\* if not.  And a chunk that was constructed holds sections of one format only.
C9_LegacyAssembly ==
    /\ (cpc = "done" /\ AllDecodersOk) =>
         /\ (HasShape("V1_13") /\ HasShape("V0")) =>
               chunkRes = ChunkErr("Mixed section versions")
         /\ (~HasShape("V1_13") /\ ~HasShape("V0")) => chunkRes = ChunkOk(ChunkEmpty)
         /\ \A kind \in {"V1_13", "V0"} :
              (HasShape(kind) /\ \A other \in {"V1_13", "V0"} \ {kind} : ~HasShape(other)) =>
                 IF chunkArgs.biomes # None
                 THEN /\ chunkRes.ok
                      /\ Val(chunkRes).variant = kind
                      /\ DOMAIN Val(chunkRes).section_map = YsOfShape(kind)
                      /\ Val(chunkRes).biomes = chunkArgs.biomes
                 ELSE ~chunkRes.ok
    /\ chunkRes.ok =>
         LET c == Val(chunkRes)
         IN /\ c.variant \in {"Empty", "V1_13", "V0"}
            /\ c.variant = "Empty" => DOMAIN c.section_map = {}
            /\ c.variant = "V1_13" =>
                 \A y \in DOMAIN c.section_map : "bits" \in DOMAIN c.section_map[y][1]
            /\ c.variant = "V0" =>
                 \A y \in DOMAIN c.section_map : "blocks" \in DOMAIN c.section_map[y][1]

\* C9's case: new_v0 has returned for a list of one V1_13 and one V0 section,
\* both of which decode, and no biome array.
C9_Witness ==
    /\ cpc = "done"
    /\ Len(chunkArgs.sections) = 2
    /\ AllDecodersOk
    /\ HasShape("V1_13") /\ HasShape("V0")
    /\ chunkArgs.biomes = None
    /\ chunkRes.err = "Mixed section versions"

--------------------------------------------------------------------------
(***************************************************************************)
(* Properties of RegionGroup                                               *)
(***************************************************************************)

\* C10: RegionGroup::new(f) fails exactly if f fails for (0, 0).  On the group
\* it returns, get(x, z) does not panic and gives: the center's value for
\* (0, 0); for another cell of -1..1 x -1..1 the value f returned for exactly
\* that cell, or None if f failed for it; None for x or z outside -1..1.
C10_NewAndGet ==
    /\ groupRes # Err("") => (groupRes.ok <=> <<0, 0>> \notin groupArgs.fails)
    /\ getRes.called =>
         /\ ~getRes.panic
         /\ getRes.val =
              IF <<getRes.x, getRes.z>> = <<0, 0>>
              THEN Some(FValue(groupArgs, <<0, 0>>))
              ELSE IF <<getRes.x, getRes.z>> \in Cells \ groupArgs.fails
              THEN Some(FValue(groupArgs, <<getRes.x, getRes.z>>))
              ELSE None

\* C10's case: get(1, -1) has returned the value of f(1, -1) on a group whose
\* cell (-1, 1) is absent.
C10_Witness ==
    /\ getRes.called
    /\ getRes.x = 1 /\ getRes.z = -1
    /\ <<-1, 1>> \in groupArgs.fails
    /\ getRes.val = Some(FValue(groupArgs, <<1, -1>>))

\* The neighbour cells in the order of the 3x3 grid's rows (x, then z)
NeighbourCells ==
    << <<-1, -1>>, <<-1, 0>>, <<-1, 1>>, <<0, -1>>, <<0, 1>>, <<1, -1>>, <<1, 0>>, <<1, 1>> >>
PresentNeighbours == SelectSeq(NeighbourCells, LAMBDA c : c \notin opArgs.fails)
\* The cells of a group other than the center that hold a value
PresentCells(group) ==
    {<<(i \div 3) - 1, (i % 3) - 1>> : i \in {j \in 0 .. 8 : group.neighs[j] # None}}

\* C11: iter yields the center first and then the value of every present
\* neighbour once, row by row, and nothing else, that is 1 + the number of
\* present neighbours items.  map gives a group with the same cells present,
\* each holding f of its value; try_map, when it returns a group, gives the
\* cells present before less the neighbours its function failed for.
C11_IterMapTryMap ==
    /\ opRes.op = "iter" =>
         /\ Len(opRes.items) = 1 + Len(PresentNeighbours)
         /\ opRes.items[1] = FValue(opArgs, <<0, 0>>)
         /\ \A i \in 1 .. Len(PresentNeighbours) :
              opRes.items[i + 1] = FValue(opArgs, PresentNeighbours[i])
    /\ opRes.op = "map" =>
         /\ opRes.res.ok
         /\ PresentCells(Val(opRes.res)) = PresentCells(Val(opGroup))
         /\ Val(opRes.res).center = MapFn(opArgs)[Val(opGroup).center]
         /\ \A i \in 0 .. 8 :
              Val(opGroup).neighs[i] # None =>
                Val(opRes.res).neighs[i] = Some(MapFn(opArgs)[The(Val(opGroup).neighs[i])])
    /\ (opRes.op = "try_map" /\ opRes.res.ok) =>
         /\ PresentCells(Val(opRes.res)) = PresentCells(Val(opGroup)) \ opArgs.gfails
         /\ Val(opRes.res).center = MapFn(opArgs)[Val(opGroup).center]
         /\ \A i \in 0 .. 8 :
              Val(opRes.res).neighs[i] # None =>
                Val(opRes.res).neighs[i] = Some(MapFn(opArgs)[The(Val(opGroup).neighs[i])])

\* C11's case: iter has run on a group one of whose eight neighbours failed
\* to build, and has yielded 8 items.
C11_Witness ==
    /\ opRes.op = "iter"
    /\ opArgs.fails = {<<-1, 0>>}
    /\ Len(opRes.items) = 8

--------------------------------------------------------------------------
(***************************************************************************)
(* Properties of RegionProcessor                                           *)
(***************************************************************************)

FailingChunks == {i \in 1 .. Len(regionArgs.chunks) : regionArgs.chunks[i] # "ok"}

\* C12: once the closure has failed for a chunk, process_region has returned
\* that chunk's error annotated with its coordinates, the chunks visited are
\* those up to the failing one, and nothing was written or renamed: the .tmp
\* and the final path hold what they held before.  When every chunk succeeds,
\* the only file operations are a write to the .tmp path followed by the
\* rename, and the final path changes only by that rename.
C12_FailFast ==
    /\ (\E j \in 1 .. Len(visited) : visited[j] \in FailingChunks) =>
         LET k == Min(FailingChunks)
         IN /\ rpc = "done"
            /\ visited = [i \in 1 .. k |-> i]
            /\ regionRes = WithContext(process_chunk(regionArgs.chunks[k], k),
                                       "Failed to process chunk", k)
            /\ fsOps = << >>
            /\ fsTmp = regionArgs.tmp0
            /\ fsFinal = regionArgs.final0
    /\ fsOps # << >> =>
         /\ FailingChunks = {}
         /\ Len(visited) = Len(regionArgs.chunks)
         /\ fsOps \in {<<"write tmp">>, <<"write tmp", "rename">>}
    /\ fsFinal # regionArgs.final0 =>
         /\ fsOps = <<"write tmp", "rename">>
         /\ fsFinal = "new"

\* C12's case: process_region has returned the error of the second of three
\* chunks.
C12_Witness ==
    /\ rpc = "done"
    /\ regionArgs.chunks = <<"ok", "top_layer_fails", "ok">>
    /\ regionArgs.final0 = "old"
    /\ regionRes.at = {2}

\* The coordinates of the region files of the directory
RegionEntries ==
    {The(entry_coords(runArgs[i], i)) :
       i \in {j \in 1 .. Len(runArgs) : entry_coords(runArgs[j], j) # None}}

\* C14: the list run returns, and so the list TileRenderer::run is handed,
\* holds only coordinates of regions whose process_region call succeeded and
\* saved the artifact; and when run returns, process_region has been called
\* for every region file of the directory, whatever failed before it.
C14_ReturnsProcessedRegions ==
    /\ runRes.ok =>
         /\ \A i \in 1 .. Len(Val(runRes)) : Val(runRes)[i] \in saved
         /\ {attempted[i] : i \in 1 .. Len(attempted)} = RegionEntries
    /\ \A i \in 1 .. Len(tiles) : tiles[i] \in saved

--------------------------------------------------------------------------
(***************************************************************************)
(* Memory safety of SectionV1_13::palette_index_at                         *)
(***************************************************************************)

\* The words of a contiguous bit stream that hold the b bits of index `off`
StreamWords(off, b) == {(off * b) \div 64, (off * b + b - 1) \div 64}

\* C13: on a section that SectionV1_13::new returned with a packed array,
\* palette_index_at at any offset 0..4095 does not panic: every word it reads
\* lies below the array's length and its left shift is by less than 64.  In
\* the unaligned layout it reads exactly the words that hold bits of the
\* index, two only if the index straddles a word boundary; offset 4095 reads
\* the last word, 64 * bits - 1, alone.
C13_ReadsInBounds ==
    (secRead.called /\ Val(sec13).block_states # None) =>
        LET sec == Val(sec13)
            off == SectionOffset(secRead.coords)
        IN /\ ~secRead.at.panic
           /\ secRead.at.words # {}
           /\ \A w \in secRead.at.words : w >= 0 /\ w < The(sec.block_states)
           /\ \A n \in secRead.at.shl : n >= 1 /\ n < 64
           /\ ~sec.aligned_blocks =>
                 /\ secRead.at.words = StreamWords(off, sec.bits)
                 /\ off = 4095 => secRead.at.words = {64 * sec.bits - 1}

\* C13's case: in the unaligned layout an index that straddles into the last
\* word of the array has been read.
C13_Witness ==
    /\ secRead.called
    /\ Val(sec13).block_states # None
    /\ ~Val(sec13).aligned_blocks
    /\ secRead.at.words = {The(Val(sec13).block_states) - 2, The(Val(sec13).block_states) - 1}
    /\ secRead.at.shl # {}

====
